---- MODULE Spec2Model ----
(***************************************************************************)
(* gmail_to_sheets: unread mail is fetched, decoded to a record, filtered  *)
(* and appended as a row to a spreadsheet; state.json remembers the ids    *)
(* already handled.  The model follows src/src/main.py (FilterConfig,      *)
(* GmailToSheets), src/src/email_parser.py (EmailParser, HTMLFilter),      *)
(* src/src/sheets_service.py and src/src/filter_manager.py.                *)
(*                                                                         *)
(* Python strings are tuples of one-character strings, a missing dict key  *)
(* is a missing record field, and an optional value (x or None) is a       *)
(* sequence of at most one element.                                        *)
(***************************************************************************)
EXTENDS Integers, Sequences, FiniteSets, TLC

\* ------------------------------------------------------------------ bounds
\* longest unread list a run is given
MaxLen == 2
\* number of program invocations explored
MaxRuns == 2

\* ------------------------------------------------------- program constants
SHEET_NAME == "Gmail Email Logs"
ShortPlainLimit == 50
MinParsedLen == 10
SubjectLimit == 200
BodyLimit == 5000

None == "None"

\* names bound at module level in main.py (its import statements and
\* definitions); `datetime` is not among them
main_names == {"os", "json", "re", "GmailService", "SheetsService", "EmailParser"}

\* ----------------------------------------------------------- str helpers
lowerChar(c) ==
    CASE c = "A" -> "a" [] c = "I" -> "i" [] c = "X" -> "x" [] c = "H" -> "h"
      [] c = "N" -> "n" [] c = "B" -> "b"
      [] OTHER -> c

\* str.lower()
lower(s) == [k \in 1..Len(s) |-> lowerChar(s[k])]

\* `sub in s`
contains(sub, s) ==
    \E k \in 0..(Len(s) - Len(sub)) : SubSeq(s, k + 1, k + Len(sub)) = sub

hasChar(c, s) == \E k \in 1..Len(s) : s[k] = c

isSpace(c) == c \in {" ", "\n", "\t"}

\* str.strip()
RECURSIVE lstrip(_)
lstrip(s) == IF s # <<>> /\ isSpace(Head(s)) THEN lstrip(Tail(s)) ELSE s

RECURSIVE rstrip(_)
rstrip(s) ==
    IF s # <<>> /\ isSpace(s[Len(s)]) THEN rstrip(SubSeq(s, 1, Len(s) - 1)) ELSE s

strip(s) == rstrip(lstrip(s))

\* re.sub(r'\s+', ' ', s)
RECURSIVE collapse_ws(_)
collapse_ws(s) ==
    IF s = <<>> THEN <<>>
    ELSE IF isSpace(Head(s))
         THEN <<" ">> \o collapse_ws(lstrip(s))
         ELSE <<Head(s)>> \o collapse_ws(Tail(s))

\* str.split()[-1]: the last whitespace-delimited token
RECURSIVE last_token_from(_)
last_token_from(s) ==
    IF s = <<>> \/ isSpace(s[Len(s)]) THEN <<>>
    ELSE last_token_from(SubSeq(s, 1, Len(s) - 1)) \o <<s[Len(s)]>>

last_token(s) == last_token_from(rstrip(s))

\* str.split('@')[-1]: what follows the last '@'
RECURSIVE after_last_at(_)
after_last_at(s) ==
    IF s = <<>> \/ s[Len(s)] = "@" THEN <<>>
    ELSE after_last_at(SubSeq(s, 1, Len(s) - 1)) \o <<s[Len(s)]>>

\* s[:n]
truncate(s, n) == IF Len(s) > n THEN SubSeq(s, 1, n) ELSE s

\* re.search(r'<([^>]+)>', s): the leftmost '<' that is followed by one or
\* more characters other than '>' and then a '>'; group(1) is what lies
\* between.
bracket_starts(s) ==
    {p \in 1..Len(s) : /\ s[p] = "<"
                       /\ \E q \in (p + 2)..Len(s) :
                            /\ s[q] = ">"
                            /\ \A r \in (p + 1)..(q - 1) : s[r] # ">"}

bracket_group(s) ==
    IF bracket_starts(s) = {} THEN <<>>
    ELSE LET p == CHOOSE x \in bracket_starts(s) : \A y \in bracket_starts(s) : x <= y
             q == CHOOSE x \in (p + 2)..Len(s) :
                     /\ s[x] = ">"
                     /\ \A r \in (p + 1)..(x - 1) : s[r] # ">"
         IN  SubSeq(s, p + 1, q - 1)

bracket_match(s) == bracket_starts(s) # {}

\* ------------------------------------------------------------ HTMLFilter
\* A decoded string is the sequence of events html.parser.HTMLParser reads
\* from it: [t |-> "start", tag], [t |-> "end", tag], [t |-> "data", text].
\* A string without markup is one data event; the empty string is <<>>.
tag_chars(tag) ==
    CASE tag = "p" -> <<"p">>
      [] tag = "b" -> <<"b">>
      [] tag = "td" -> <<"t", "d">>
      [] tag = "ul" -> <<"u", "l">>
      [] tag = "script" -> <<"s", "c", "r", "i", "p", "t">>
      [] tag = "style" -> <<"s", "t", "y", "l", "e">>
      [] tag = "head" -> <<"h", "e", "a", "d">>
      [] tag = "title" -> <<"t", "i", "t", "l", "e">>
      [] tag = "meta" -> <<"m", "e", "t", "a">>
      [] OTHER -> <<"x">>

\* the characters of one event
event_chars(e) ==
    CASE e.t = "start" -> <<"<">> \o tag_chars(e.tag) \o <<">">>
      [] e.t = "end" -> <<"<", "/">> \o tag_chars(e.tag) \o <<">">>
      [] OTHER -> e.text

\* the characters of a decoded string
RECURSIVE chars(_)
chars(events) ==
    IF events = <<>> THEN <<>> ELSE event_chars(Head(events)) \o chars(Tail(events))

ignore_tags == {"script", "style", "head", "title", "meta"}
start_newline_tags == {"p", "br", "div", "h1", "h2", "h3", "h4", "h5", "h6", "li"}
end_newline_tags == {"p", "div", "h1", "h2", "h3", "h4", "h5", "h6", "li", "ul", "ol"}

HTMLFilter_init == [text |-> <<>>, current_tag |-> None]

handle_starttag(self, tag) ==
    [current_tag |-> tag,
     text |-> IF tag \in start_newline_tags THEN Append(self.text, <<"\n">>)
              ELSE IF tag = "td" THEN Append(self.text, <<" ">>)
              ELSE self.text]

handle_endtag(self, tag) ==
    [current_tag |-> None,
     text |-> IF tag \in end_newline_tags THEN Append(self.text, <<"\n">>)
              ELSE self.text]

handle_data(self, data) ==
    IF self.current_tag \notin ignore_tags /\ strip(data) # <<>>
    THEN [self EXCEPT !.text = Append(self.text, strip(data))]
    ELSE self

\* HTMLParser.feed: one handler call per event, in order
RECURSIVE feed(_, _)
feed(self, events) ==
    IF events = <<>> THEN self
    ELSE LET e == Head(events)
             next == CASE e.t = "start" -> handle_starttag(self, e.tag)
                       [] e.t = "end" -> handle_endtag(self, e.tag)
                       [] OTHER -> handle_data(self, e.text)
         IN  feed(next, Tail(events))

\* ' '.join(pieces)
RECURSIVE join_space(_)
join_space(pieces) ==
    IF pieces = <<>> THEN <<>>
    ELSE IF Len(pieces) = 1 THEN pieces[1]
    ELSE pieces[1] \o <<" ">> \o join_space(Tail(pieces))

\* re.sub(r'\n\s*\n', '\n', s): a newline, any whitespace, a newline
\* becomes one newline (leftmost, longest, non-overlapping)
RECURSIVE ws_run_len(_)
ws_run_len(s) == IF s # <<>> /\ isSpace(Head(s)) THEN 1 + ws_run_len(Tail(s)) ELSE 0

last_newline_in(s, n) ==
    LET ps == {k \in 2..n : s[k] = "\n"}
    IN  IF ps = {} THEN 0 ELSE CHOOSE k \in ps : \A j \in ps : j <= k

RECURSIVE collapse_newlines(_)
collapse_newlines(s) ==
    IF s = <<>> THEN <<>>
    ELSE IF Head(s) = "\n" /\ last_newline_in(s, ws_run_len(s)) > 0
         THEN <<"\n">> \o collapse_newlines(SubSeq(s, last_newline_in(s, ws_run_len(s)) + 1, Len(s)))
         ELSE <<Head(s)>> \o collapse_newlines(Tail(s))

get_text(self) == strip(collapse_ws(collapse_newlines(join_space(self.text))))

\* ------------------------------------------------------------ EmailParser
\* the fallback of html_to_text:
\* re.sub(r'<(script|style).*?>.*?</\1>', '', ...) drops a script or style
\* start tag through the first end tag of the same name after it
first_end_after(events, tag) ==
    LET ps == {k \in 2..Len(events) : events[k].t = "end" /\ events[k].tag = tag}
    IN  IF ps = {} THEN 0 ELSE CHOOSE k \in ps : \A j \in ps : k <= j

RECURSIVE strip_script_style(_)
strip_script_style(events) ==
    IF events = <<>> THEN <<>>
    ELSE LET e == Head(events)
         IN  IF e.t = "start" /\ e.tag \in {"script", "style"}
                   /\ first_end_after(events, e.tag) > 0
             THEN strip_script_style(
                      SubSeq(events, first_end_after(events, e.tag) + 1, Len(events)))
             ELSE <<e>> \o strip_script_style(Tail(events))

\* re.sub(r'<[^>]+>', ' ', ...)
RECURSIVE tags_to_space(_)
tags_to_space(events) ==
    IF events = <<>> THEN <<>>
    ELSE (IF Head(events).t = "data" THEN Head(events).text ELSE <<" ">>)
         \o tags_to_space(Tail(events))

html_to_text(html_content) ==
    IF html_content = <<>> THEN <<>>
    ELSE LET text == get_text(feed(HTMLFilter_init, html_content))
         IN  IF Len(text) < MinParsedLen
             THEN strip(collapse_ws(tags_to_space(strip_script_style(html_content))))
             ELSE text

\* base64.urlsafe_b64decode(data).decode('utf-8', errors='ignore'):
\* body data is [b64 |-> TRUE, text |-> the decoded string], or
\* [b64 |-> FALSE] when it is not valid base64 and decoding raises
b64_raises(data) == ~data.b64
b64decode(data) == data.text

mime_lower(m) ==
    CASE m = "TEXT/PLAIN" -> "text/plain" [] m = "Text/Html" -> "text/html" [] OTHER -> m

is_multipart(m) == m \in {"multipart/alternative", "multipart/mixed", "multipart/related"}

has(d, key) == key \in DOMAIN d

\* part.get('mimeType', '')
get_mime(part) == IF has(part, "mimeType") THEN mime_lower(part.mimeType) ELSE ""

\* variant of longer that takes the new text on ties
longer_or_equal(kept, text) ==
    IF Len(chars(text)) >= Len(chars(kept)) THEN text ELSE kept

\* the longer of the candidate kept so far and a new text; the first on ties
longer(kept, text) ==
    IF Len(chars(kept)) = 0 \/ Len(chars(text)) > Len(chars(kept)) THEN text ELSE kept

\* get_email_bodies.extract_from_part; acc = [plain_text, html_text, raised],
\* raised when an exception left the walk
RECURSIVE extract_from_part(_, _)
RECURSIVE extract_from_parts(_, _)
extract_from_part(part, acc) ==
    IF acc.raised THEN acc
    ELSE LET mime_type == get_mime(part)
         IN  IF mime_type \in {"text/plain", "text/html"}
             THEN IF ~has(part, "body") THEN [acc EXCEPT !.raised = TRUE]
                  ELSE IF ~has(part.body, "data") THEN acc
                  ELSE IF b64_raises(part.body.data) THEN [acc EXCEPT !.raised = TRUE]
                  ELSE IF mime_type = "text/plain"
                       THEN [acc EXCEPT !.plain_text = longer(@, b64decode(part.body.data))]
                       ELSE [acc EXCEPT !.html_text = longer(@, b64decode(part.body.data))]
             ELSE IF is_multipart(mime_type)
                  THEN extract_from_parts(IF has(part, "parts") THEN part.parts ELSE <<>>, acc)
                  ELSE acc

extract_from_parts(parts, acc) ==
    IF parts = <<>> THEN acc
    ELSE extract_from_parts(Tail(parts), extract_from_part(Head(parts), acc))

get_email_bodies(payload) ==
    LET empty == [plain_text |-> <<>>, html_text |-> <<>>, raised |-> FALSE]
    IN  IF has(payload, "parts") THEN extract_from_parts(payload.parts, empty)
        ELSE IF has(payload, "body") /\ has(payload.body, "data")
             THEN IF b64_raises(payload.body.data) THEN [empty EXCEPT !.raised = TRUE]
                  ELSE IF get_mime(payload) = "text/plain"
                       THEN [empty EXCEPT !.plain_text = b64decode(payload.body.data)]
                       ELSE IF get_mime(payload) = "text/html"
                            THEN [empty EXCEPT !.html_text = b64decode(payload.body.data)]
                            ELSE empty
             ELSE empty

\* A date header value is [fmt, day, tod, tail]: the strptime format its
\* text is written in ("other" when in none), the calendar day, the time of
\* day in seconds, and what follows the time (" (UTC)", " GMT" or nothing).
\* The empty header has fmt "".
date_formats == <<"%a, %d %b %Y %H:%M:%S %z", "%d %b %Y %H:%M:%S %z",
                  "%Y-%m-%d %H:%M:%S", "%d %b %Y %H:%M:%S %z (%Z)",
                  "%Y/%m/%d %H:%M:%S">>

canonical_format == "%Y-%m-%d %H:%M:%S"

\* date_string.split(' (')[0].split(' GMT')[0]
date_str_clean(d) == [d EXCEPT !.tail = ""]

\* datetime.strptime(d, fmt) succeeds
strptime_ok(d, fmt) == d.fmt = fmt /\ d.tail = ""

empty_date == [fmt |-> "", day |-> 0, tod |-> 0, tail |-> ""]

parse_date(date_string) ==
    IF date_string.fmt = "" THEN date_string
    ELSE IF \E k \in 1..Len(date_formats) : strptime_ok(date_str_clean(date_string), date_formats[k])
         THEN [fmt |-> canonical_format, day |-> date_string.day,
               tod |-> date_string.tod, tail |-> ""]
         ELSE date_string

header_lower(n) ==
    CASE n = "From" -> "from" [] n = "Subject" -> "subject" [] n = "Date" -> "date"
      [] OTHER -> n

\* variant of from_address that does not look for brackets
from_address_last_token(value) ==
    IF hasChar("@", value) THEN last_token(value) ELSE value

\* the From header value as parse_email keeps it
from_address(value) ==
    IF bracket_match(value) THEN bracket_group(value)
    ELSE IF hasChar("@", value) THEN last_token(value) ELSE value

\* the header loop of parse_email: the last header of a name wins
RECURSIVE parse_headers(_, _)
parse_headers(headers, acc) ==
    IF headers = <<>> THEN acc
    ELSE LET h == Head(headers)
             name == header_lower(h.name)
             next == CASE name = "from" -> [acc EXCEPT !.from_email = from_address(h.value)]
                       [] name = "subject" -> [acc EXCEPT !.subject = h.value]
                       [] name = "date" -> [acc EXCEPT !.date_received = h.value]
                       [] OTHER -> acc
         IN  parse_headers(Tail(headers), next)

\* EmailParser.parse_email(message): [status |-> "none"] for None,
\* [status |-> "raise"] when an exception leaves it, else the record with
\* status "ok".  A message that is None or {} is the record without fields.
NoMessage == <<>>
falsy(message) == DOMAIN message = {}

\* variant of select_text whose limit includes 50 characters
select_text_at_most(plain_text, html_text) ==
    IF Len(chars(html_text)) > 0 /\ Len(chars(plain_text)) <= ShortPlainLimit
    THEN html_to_text(html_text)
    ELSE chars(plain_text)

\* the text the body is made of (lines 87-91): the converted HTML when
\* there is no plain text, or a plain text under 50 characters beside an
\* HTML part; else the plain text
select_text(plain_text, html_text) ==
    IF Len(chars(plain_text)) = 0 /\ Len(chars(html_text)) > 0
    THEN html_to_text(html_text)
    ELSE IF /\ Len(chars(plain_text)) > 0
            /\ Len(chars(html_text)) > 0
            /\ Len(chars(plain_text)) < ShortPlainLimit
         THEN html_to_text(html_text)
         ELSE chars(plain_text)

parse_email(message) ==
    IF falsy(message) THEN [status |-> "none"]
    ELSE IF ~has(message, "payload") \/ ~has(message.payload, "headers")
         THEN [status |-> "raise"]
    ELSE LET hdr == parse_headers(message.payload.headers,
                        [from_email |-> <<>>, subject |-> <<>>, date_received |-> empty_date])
             bodies == get_email_bodies(message.payload)
         IN  IF bodies.raised \/ ~has(message, "id") THEN [status |-> "raise"]
             ELSE LET plain_text == select_text(bodies.plain_text, bodies.html_text)
                  IN  [status |-> "ok",
                       id |-> message.id,
                       from |-> hdr.from_email,
                       subject |-> truncate(hdr.subject, SubjectLimit),
                       date |-> parse_date(hdr.date_received),
                       body |-> truncate(strip(collapse_ws(plain_text)), BodyLimit)]

\* ----------------------------------------------------------- FilterConfig
\* FilterConfig.__init__
FilterConfig_init ==
    [enable_filtering |-> FALSE, subject_keywords |-> <<>>, sender_domains |-> <<>>,
     min_date |-> <<>>, max_date |-> <<>>]

\* d.get(key, default)
get(d, key, default) == IF has(d, key) THEN d[key] ELSE default

\* What json.load gives: an object is the record of its keys; any other
\* value is a record with the field `json`: [json |-> "list", items |-> S]
\* (S the set of its items, all strings), [json |-> "str", chars |-> q],
\* [json |-> "null"], [json |-> "num"].
is_dict(v) == "json" \notin DOMAIN v
json_list(items) == [json |-> "list", items |-> items]

\* set(v) raises TypeError: v is not iterable
set_raises(v) == ~is_dict(v) /\ v.json \in {"null", "num"}

\* set(v): the items of a list, the characters of a string, the keys of an
\* object
py_set(v) ==
    IF is_dict(v) THEN DOMAIN v
    ELSE IF v.json = "list" THEN v.items
    ELSE {v.chars[k] : k \in 1..Len(v.chars)}

\* A file: [kind |-> "missing"], [kind |-> "unreadable"] (open raises),
\* [kind |-> "corrupt"] (json.load raises) or [kind |-> "json", data |-> v].
json_file(v) == [kind |-> "json", data |-> v]

\* load_config: config_data stays {} unless the file is read and parsed
config_data_of(config_file) ==
    IF config_file.kind = "json" THEN config_file.data ELSE <<>>

\* load_from_config raises AttributeError: config_data, or its `filters`
\* value, has no .get; nothing in load_config or main() catches it
load_from_config_raises(config_data) ==
    \/ ~is_dict(config_data)
    \/ ~is_dict(get(config_data, "filters", <<>>))

\* FilterConfig.load_from_config
load_from_config(config_data) ==
    LET filter_settings == get(config_data, "filters", <<>>)
    IN  [enable_filtering |-> get(filter_settings, "enabled", FALSE),
         subject_keywords |-> get(filter_settings, "subject_keywords", <<>>),
         sender_domains |-> get(filter_settings, "sender_domains", <<>>),
         min_date |-> get(filter_settings, "min_date", <<>>),
         max_date |-> get(filter_settings, "max_date", <<>>)]

\* the sender's domain as both filter functions compute it
sender_domain(from_email) ==
    IF hasChar("@", from_email) THEN after_last_at(from_email) ELSE <<>>

seq_range(q) == {q[k] : k \in 1..Len(q)}

\* variant of subject_rejects that compares without lowering
subject_rejects_case_sensitive(self, email_data) ==
    /\ self.subject_keywords # <<>>
    /\ ~\E k \in 1..Len(self.subject_keywords) :
           contains(self.subject_keywords[k], email_data.subject)

\* the subject block of should_process_email rejects
subject_rejects(self, email_data) ==
    /\ self.subject_keywords # <<>>
    /\ ~\E k \in 1..Len(self.subject_keywords) :
           contains(lower(self.subject_keywords[k]), lower(email_data.subject))

\* the sender-domain block of should_process_email rejects
domain_rejects(self, email_data) ==
    /\ self.sender_domains # <<>>
    /\ sender_domain(email_data.from) # <<>>
    /\ lower(sender_domain(email_data.from))
           \notin {lower(d) : d \in seq_range(self.sender_domains)}

\* datetime values compare as (day, time of day)
dt_less(a, b) == a[1] < b[1] \/ (a[1] = b[1] /\ a[2] < b[2])

\* variant of date_rejects that rejects a date strptime cannot read
date_rejects_unparsed(self, email_data) ==
    /\ self.min_date # <<>> \/ self.max_date # <<>>
    /\ ~strptime_ok(email_data.date, canonical_format)

\* the date block of should_process_email rejects.  The name `datetime` is
\* looked up when the block runs; the lookup or a strptime that fails raises
\* inside the try, and the bare except passes.
date_rejects(self, email_data) ==
    /\ self.min_date # <<>> \/ self.max_date # <<>>
    /\ "datetime" \in main_names
    /\ strptime_ok(email_data.date, canonical_format)
    /\ LET email_date == <<email_data.date.day, email_data.date.tod>>
       IN  \/ self.min_date # <<>> /\ dt_less(email_date, <<self.min_date[1], 0>>)
           \/ self.max_date # <<>> /\ dt_less(<<self.max_date[1], 0>>, email_date)

\* variant of should_process_email without the test of enable_filtering
should_process_email_unconditional(self, email_data) ==
    IF subject_rejects(self, email_data) THEN FALSE
    ELSE IF domain_rejects(self, email_data) THEN FALSE
    ELSE ~date_rejects(self, email_data)

\* FilterConfig.should_process_email
should_process_email(self, email_data) ==
    IF ~self.enable_filtering THEN TRUE
    ELSE IF subject_rejects(self, email_data) THEN FALSE
    ELSE IF domain_rejects(self, email_data) THEN FALSE
    ELSE ~date_rejects(self, email_data)

\* ---------------------------------------------------------- GmailToSheets
S_subject == <<"S", "u", "b", "j", "e", "c", "t", ":", " ">>
S_domain == <<"D", "o", "m", "a", "i", "n", ":", " ">>
S_no_match == <<"N", "o", " ", "f", "i", "l", "t", "e", "r", " ", "m", "a", "t", "c", "h">>

\* ', '.join(matches)
RECURSIVE join_comma(_)
join_comma(pieces) ==
    IF pieces = <<>> THEN <<>>
    ELSE IF Len(pieces) = 1 THEN pieces[1]
    ELSE pieces[1] \o <<",", " ">> \o join_comma(Tail(pieces))

first_index(q, P(_)) ==
    CHOOSE k \in 1..Len(q) : P(q[k]) /\ \A j \in 1..(k - 1) : ~P(q[j])

\* variant of extract_filter_matches that reports the last matching keyword
extract_filter_matches_last_keyword(filter_config, email_data) ==
    LET kws == filter_config.subject_keywords
        hits == {k \in 1..Len(kws) : contains(lower(kws[k]), lower(email_data.subject))}
        domain == sender_domain(email_data.from)
        matches ==
            (IF hits = {} THEN <<>>
             ELSE <<S_subject \o kws[CHOOSE k \in hits : \A j \in hits : j <= k]>>)
            \o (IF domain # <<>> /\ \E k \in 1..Len(filter_config.sender_domains) :
                                       lower(domain) = lower(filter_config.sender_domains[k])
                THEN <<S_domain \o domain>> ELSE <<>>)
    IN  IF matches # <<>> THEN join_comma(matches) ELSE S_no_match

\* GmailToSheets.extract_filter_matches
extract_filter_matches(filter_config, email_data) ==
    LET subject_lower == lower(email_data.subject)
        kw_hit(kw) == contains(lower(kw), subject_lower)
        domain == sender_domain(email_data.from)
        dom_hit(d) == lower(domain) = lower(d)
        subject_matches ==
            IF \E k \in 1..Len(filter_config.subject_keywords) :
                   kw_hit(filter_config.subject_keywords[k])
            THEN <<S_subject \o filter_config.subject_keywords[
                       first_index(filter_config.subject_keywords, kw_hit)]>>
            ELSE <<>>
        domain_matches ==
            IF domain # <<>> /\ \E k \in 1..Len(filter_config.sender_domains) :
                                   dom_hit(filter_config.sender_domains[k])
            THEN <<S_domain \o domain>>
            ELSE <<>>
        matches == subject_matches \o domain_matches
    IN  IF matches # <<>> THEN join_comma(matches) ELSE S_no_match

\* variant of load_state that ignores the file
load_state_forgets(state_file) == {}

\* GmailToSheets.load_state: every exception under the try gives set()
load_state(state_file) ==
    IF state_file.kind # "json" THEN {}
    ELSE IF ~is_dict(state_file.data) THEN {}
    ELSE LET value == get(state_file.data, "processed_ids", json_list({}))
         IN  IF set_raises(value) THEN {} ELSE py_set(value)

\* variant of saved_state that writes an empty list
saved_state_empty(processed_ids) == json_file([processed_ids |-> json_list({})])

\* what save_state writes
saved_state(processed_ids) ==
    json_file([processed_ids |-> json_list(processed_ids)])

\* variant of already_processed whose test always fails
already_processed_never(id, ids) == FALSE

\* `msg_id in self.processed_ids`
already_processed(id, ids) == id \in ids

\* variant of ledger_after_filter that does not add the id
ledger_after_filter_unmarked(ids, id) == ids

\* the ledger after a message was filtered out: processed_ids.add(msg_id)
ledger_after_filter(ids, id) == ids \cup {id}

\* variant of ledger_after_append that never adds the id
ledger_after_append_never(ids, id, success) == ids

\* variant of ledger_after_append that adds the id whatever the result
ledger_after_append_always(ids, id, success) == ids \cup {id}

\* the ledger after append_data returned `success`: the id is added only
\* under `if success:`
ledger_after_append(ids, id, success) == IF success THEN ids \cup {id} ELSE ids

\* ------------------------------------------------------------ the mailbox
MsgIds == {"m1", "m2", "m3"}

text_of(cs) == <<[t |-> "data", text |-> cs]>>
data_of(events) == [b64 |-> TRUE, text |-> events]

\* m1: "Ann <a@X>", subject "Inv", an RFC-822 date, a short plain part and
\* the HTML alternative <p>Hello <b>world</b></p>
Msg1 ==
    [id |-> "m1",
     payload |->
       [mimeType |-> "multipart/alternative",
        headers |-> <<[name |-> "From", value |-> <<"A", "n", "n", " ", "<", "a", "@", "X", ">">>],
                      [name |-> "Subject", value |-> <<"I", "n", "v">>],
                      [name |-> "Date", value |-> [fmt |-> "%a, %d %b %Y %H:%M:%S %z",
                                                    day |-> 2, tod |-> 36000, tail |-> " (UTC)"]]>>,
        parts |-> <<[mimeType |-> "text/plain",
                     body |-> [data |-> data_of(text_of(<<"h", "i">>))]],
                    [mimeType |-> "text/html",
                     body |-> [data |-> data_of(<<[t |-> "start", tag |-> "p"],
                                                   [t |-> "data", text |-> <<"H", "e", "l", "l", "o", " ">>],
                                                   [t |-> "start", tag |-> "b"],
                                                   [t |-> "data", text |-> <<"w", "o", "r", "l", "d">>],
                                                   [t |-> "end", tag |-> "b"],
                                                   [t |-> "end", tag |-> "p"]>>)]]>>]]

\* m2: "b@y", subject "Hi", a date in no known format, one plain part
Msg2 ==
    [id |-> "m2",
     payload |->
       [mimeType |-> "text/plain",
        headers |-> <<[name |-> "from", value |-> <<"b", "@", "y">>],
                      [name |-> "subject", value |-> <<"H", "i">>],
                      [name |-> "date", value |-> [fmt |-> "other", day |-> 5, tod |-> 0, tail |-> ""]]>>,
        body |-> [data |-> data_of(text_of(<<"o", "k", " ", " ", "t", "h", "e", "n">>))]]]

\* m3: a multipart message whose text/plain part has no 'body'
Msg3 ==
    [id |-> "m3",
     payload |->
       [mimeType |-> "multipart/mixed",
        headers |-> <<[name |-> "From", value |-> <<"c", "@", "x">>],
                      [name |-> "Subject", value |-> <<"I", "n", "v">>]>>,
        parts |-> <<[mimeType |-> "text/plain"]>>]]

\* users().messages().get(id=msg_id, format='full')
Mailbox(msg_id) == CASE msg_id = "m1" -> Msg1 [] msg_id = "m2" -> Msg2 [] OTHER -> Msg3

\* the lists users().messages().list can return
RECURSIVE SeqsUpTo(_, _)
SeqsUpTo(S, n) ==
    IF n = 0 THEN {<<>>}
    ELSE LET shorter == SeqsUpTo(S, n - 1)
         IN  shorter \cup {Append(q, x) : q \in {r \in shorter : Len(r) = n - 1}, x \in S}

UnreadLists == SeqsUpTo(MsgIds, MaxLen)

\* --------------------------------------------------------- configurations
KeywordInputs == {<<>>, << <<"i", "n", "v">> >>}
DomainInputs == {<<>>, << <<"X">> >>}
\* (start, end) answers of the date prompts; <<>> is an empty answer
DateInputs == {<< <<>>, <<>> >>, << <<3>>, <<4>> >>}

test_data == << <<"T", "e", "s", "t", " ", "D", "a", "t", "e">>,
               <<"t", "e", "s", "t", "@", "e", "x", "a", "m", "p", "l", "e", ".", "c", "o", "m">>,
               <<"T", "e", "s", "t", " ", "S", "u", "b", "j", "e", "c", "t">>,
               <<"T", "e", "s", "t", " ", "C", "o", "n", "t", "e", "n", "t">> >>

sheet_headers == <<"Date & Time", "From", "Subject", "Content", "Filter Match">>

\* ------------------------------------------------------------------ state
VARIABLES
    stateFile,          \* state.json
    configFile,         \* config.json
    sheets,             \* the spreadsheet: sequence of [title, headers, rows]
    pc,                 \* where the process is: "idle" (none started yet),
                        \* "setup", "list", "loop", "fetched", "parsed",
                        \* "append", "exited"
    exit_kind,          \* how the last process ended: "return" (before the
                        \* loop), "completed", "exception", "killed"
    processed_ids,      \* GmailToSheets.processed_ids
    filter_config,      \* GmailToSheets.filter_config
    target_sheet,       \* process_emails: target_sheet
    messages,           \* process_emails: messages
    i,                  \* process_emails: position in messages (from 1)
    email_message,      \* process_emails: email_message
    email_data,         \* process_emails: email_data
    successful_emails,  \* process_emails: successful_emails
    filtered_emails,    \* process_emails: filtered_emails
    runs,               \* history: number of processes started
    loaded,             \* history: the ledger the current process loaded
    log,                \* history: the steps of the current process
    prev,               \* history: the process before the current one: its list
                        \* (kept until the current one has its own), whether
                        \* it completed, its counts and the rows it left
    same_list,          \* history: the current process was given the list the
                        \* one before it was given
    retry,              \* history: ids whose last step in the process before
                        \* the current one was a failure
    delivered,          \* history: ids appended by a process that completed
    rejected            \* history: ids filtered out by an earlier process

prog_vars == <<stateFile, configFile, sheets, pc, exit_kind, processed_ids, filter_config,
               target_sheet, messages, i, email_message, email_data,
               successful_emails, filtered_emails>>
hist_vars == <<runs, loaded, log, prev, same_list, retry, delivered, rejected>>
vars == <<prog_vars, hist_vars>>

\* ------------------------------------------------------- derived history
log_ids(step, res) == {log[k].id : k \in {j \in 1..Len(log) : log[j].step = step /\ log[j].res = res}}
appended_now == log_ids("append", "ok")
filtered_now == log_ids("filter", "drop")
count_log(step, res) == Cardinality({k \in 1..Len(log) : log[k].step = step /\ log[k].res = res})
is_failure(e) ==
    \/ e.step = "fetch" /\ e.res = "fail"
    \/ e.step = "parse" /\ e.res \in {"none", "raise"}
    \/ e.step = "append" /\ e.res = "fail"
is_outcome(e) ==
    \/ is_failure(e)
    \/ e.step = "skip"
    \/ e.step = "filter" /\ e.res = "drop"
    \/ e.step = "append" /\ e.res = "ok"
\* ids whose last step so far is a failure
failed_last ==
    {log[k].id : k \in {j \in 1..Len(log) :
                           /\ is_failure(log[j])
                           /\ \A n \in (j + 1)..Len(log) : log[n].id # log[j].id}}
skipped_count == count_log("skip", "ok")
failed_count == count_log("fetch", "fail") + count_log("parse", "none") + count_log("append", "fail")

sheet_index(title) ==
    IF \E k \in 1..Len(sheets) : sheets[k].title = title
    THEN CHOOSE k \in 1..Len(sheets) : sheets[k].title = title
    ELSE 0
sheet_titles == [k \in 1..Len(sheets) |-> sheets[k].title]
all_rows == LET RECURSIVE cat(_)
                cat(k) == IF k > Len(sheets) THEN <<>> ELSE sheets[k].rows \o cat(k + 1)
            IN  cat(1)
row_count == Len(all_rows)
rows_of(msg_id) == Cardinality({k \in 1..Len(all_rows) : all_rows[k].src = msg_id})

NoRecord == [status |-> "none"]
NoPrev == [ran |-> FALSE, messages |-> <<>>, completed |-> FALSE, appended |-> 0,
           filtered |-> 0, skipped |-> 0, rows |-> 0]

\* ------------------------------------------------------------------- Init
\* no process has started
NotStarted ==
    /\ pc = "idle"
    /\ exit_kind = ""
    /\ processed_ids = {}
    /\ filter_config = FilterConfig_init
    /\ target_sheet = ""
    /\ messages = <<>>
    /\ i = 0
    /\ email_message = NoMessage
    /\ email_data = NoRecord
    /\ successful_emails = 0
    /\ filtered_emails = 0
    /\ runs = 0
    /\ loaded = {}
    /\ log = <<>>
    /\ prev = NoPrev
    /\ same_list = FALSE
    /\ retry = {}
    /\ delivered = {}
    /\ rejected = {}

\* Before the first process: no state.json, or the state.json of earlier
\* use in which m2 was filtered out; filtering disabled; the spreadsheet
\* as create_spreadsheet makes it.
Init ==
    /\ stateFile \in {[kind |-> "missing"],
                      json_file([processed_ids |-> json_list({"m2"})])}
    /\ configFile = json_file([spreadsheet_id |-> "sid", filters |-> [enabled |-> FALSE]])
    /\ sheets = <<[title |-> "Email Logs", headers |-> <<>>, rows |-> <<>>]>>
    /\ NotStarted

\* -------------------------------------------------------- filter_manager
\* d[key] = value  /  d.pop(key, None)
set_key(d, key, value) == [x \in DOMAIN d \cup {key} |-> IF x = key THEN value ELSE d[x]]
pop_key(d, key) == [x \in DOMAIN d \ {key} |-> d[x]]

\* a list or date answer: set the key when given, pop it when empty
answer(filters, key, given) ==
    IF given # <<>> THEN set_key(filters, key, given) ELSE pop_key(filters, key)

\* filter_manager.manage_filters with menu choice 1..5 (6, 7 and invalid
\* choices return without saving); `given` is what the user types after
\* the choice: a list for 2 and 3, the two dates for 4
manage_filters_result(config, choice, given) ==
    LET filters == get(config, "filters", [enabled |-> FALSE])
        changed ==
            CASE choice = 1 -> set_key(filters, "enabled", ~get(filters, "enabled", FALSE))
              [] choice = 2 -> answer(filters, "subject_keywords", given)
              [] choice = 3 -> answer(filters, "sender_domains", given)
              [] choice = 4 -> answer(answer(filters, "min_date", given[1]), "max_date", given[2])
              [] OTHER -> [enabled |-> FALSE]
    IN  set_key(config, "filters", changed)

\* the answers explored after a menu choice
Answers(choice) ==
    CASE choice = 2 -> KeywordInputs
      [] choice = 3 -> DomainInputs
      [] choice = 4 -> DateInputs
      [] OTHER -> {<<>>}

\* the menu choices explored
ManageChoices == {1, 2, 5}

Running == pc \in {"setup", "list", "loop", "fetched", "parsed", "append"}

\* Without config.json the tool returns; a file that cannot be parsed, or
\* whose content or `filters` value has no .get, ends it by an exception
\* before anything is written.
manage_filters ==
    /\ ~Running
    /\ configFile.kind = "json"
    /\ ~load_from_config_raises(configFile.data)
    /\ \E choice \in ManageChoices :
         \E given \in Answers(choice) :
           configFile' = json_file(manage_filters_result(configFile.data, choice, given))
    /\ configFile' # configFile
    /\ UNCHANGED <<stateFile, sheets, pc, exit_kind, processed_ids, filter_config,
                   target_sheet, messages, i, email_message, email_data,
                   successful_emails, filtered_emails, hist_vars>>

\* ------------------------------------------------------------ the process
exit(kind) ==
    /\ pc' = "exited"
    /\ exit_kind' = kind

\* main(): GmailToSheets() loads state.json, load_config() loads the
\* filters, run() authenticates and enters process_emails.  An exception
\* of load_from_config ends the process; without a spreadsheet id main()
\* asks for one, and the user gives none.
Start ==
    /\ ~Running
    /\ runs < MaxRuns
    /\ processed_ids' = load_state(stateFile)
    /\ LET config_data == config_data_of(configFile)
       IN  IF load_from_config_raises(config_data)
           THEN filter_config' = FilterConfig_init /\ exit("exception")
           ELSE /\ filter_config' = load_from_config(config_data)
                /\ IF get(config_data, "spreadsheet_id", None) = None
                   THEN exit("return")
                   ELSE pc' = "setup" /\ exit_kind' = ""
    /\ target_sheet' = ""
    /\ messages' = <<>>
    /\ i' = 0
    /\ email_message' = NoMessage
    /\ email_data' = NoRecord
    /\ successful_emails' = 0
    /\ filtered_emails' = 0
    /\ runs' = runs + 1
    /\ loaded' = load_state(stateFile)
    /\ log' = <<>>
    /\ prev' = [ran |-> runs > 0, messages |-> messages, completed |-> exit_kind = "completed",
                appended |-> successful_emails, filtered |-> filtered_emails,
                skipped |-> skipped_count, rows |-> row_count]
    /\ same_list' = FALSE
    /\ retry' = failed_last
    /\ rejected' = rejected \cup filtered_now
    /\ UNCHANGED <<stateFile, configFile, sheets, delivered>>

\* variant of append_data that inserts the row above the existing rows
append_data_on_top(title, row) ==
    [sheets EXCEPT ![sheet_index(title)].rows = <<row>> \o @]

\* SheetsService.append_data on the sheet of that title
append_data(title, row) ==
    [sheets EXCEPT ![sheet_index(title)].rows = Append(@, row)]

\* process_emails up to the listing of unread mail: validate_spreadsheet,
\* get_sheets, the choice of target_sheet and ensure_sheet_setup.  At most
\* one Sheets API call fails, the one numbered `fail`: 1 get_sheets
\* (validate), 2 get_sheets, 3 get (sheet_exists), 4 addSheet,
\* 5 values.update, 6 values.append
SetupFailures == {0, 1, 6}

Setup ==
    /\ pc = "setup"
    /\ \E fail \in SetupFailures :
         LET ok == [k \in 1..6 |-> k # fail]
             seen == IF ok[2] THEN sheet_titles ELSE <<>>
             target == IF SHEET_NAME \notin seq_range(seen) /\ seen # <<>>
                       THEN seen[1] ELSE SHEET_NAME
             exists == ok[3] /\ target \in seq_range(sheet_titles)
             create_ok == ok[4] /\ target \notin seq_range(sheet_titles)
             created == IF exists THEN sheets
                        ELSE Append(sheets, [title |-> target, headers |-> <<>>, rows |-> <<>>])
             k == IF exists THEN sheet_index(target) ELSE Len(sheets) + 1
             headed == IF ok[5] THEN [created EXCEPT ![k].headers = sheet_headers] ELSE created
             tested == [headed EXCEPT ![k].rows = Append(@, [src |-> "test", cells |-> test_data])]
         IN  IF ~ok[1]
             THEN exit("return") /\ UNCHANGED <<sheets, target_sheet>>
             ELSE IF ~exists /\ ~create_ok
                  THEN exit("return") /\ target_sheet' = target /\ UNCHANGED sheets
                  ELSE IF ~ok[6]
                       THEN exit("return") /\ target_sheet' = target /\ sheets' = headed
                       ELSE /\ pc' = "list"
                            /\ target_sheet' = target
                            /\ sheets' = tested
                            /\ UNCHANGED exit_kind
    /\ UNCHANGED <<stateFile, configFile, processed_ids, filter_config, messages, i,
                   email_message, email_data, successful_emails, filtered_emails, hist_vars>>

\* messages = get_unread_emails(); an API error gives the empty list, and
\* an empty list returns
GetUnread ==
    /\ pc = "list"
    /\ \E unread \in UnreadLists :
         /\ messages' = unread
         /\ same_list' = (prev.ran /\ unread = prev.messages)
         /\ prev' = [prev EXCEPT !.messages = <<>>]
         /\ IF unread = <<>>
            THEN exit("return") /\ UNCHANGED i
            ELSE pc' = "loop" /\ i' = 1 /\ UNCHANGED exit_kind
    /\ UNCHANGED <<stateFile, configFile, sheets, processed_ids, filter_config, target_sheet,
                   email_message, email_data, successful_emails, filtered_emails,
                   runs, loaded, log, retry, delivered, rejected>>

msg_id == messages[i]
InLoop == pc = "loop" /\ i <= Len(messages)
logged(step, res) == log' = Append(log, [pos |-> i, id |-> msg_id, step |-> step, res |-> res])
\* `continue`, or the end of the loop body
next_message == pc' = "loop" /\ i' = i + 1

\* the id is in the ledger: continue
Skip ==
    /\ InLoop
    /\ already_processed(msg_id, processed_ids)
    /\ next_message
    /\ logged("skip", "ok")
    /\ UNCHANGED <<stateFile, configFile, sheets, exit_kind, processed_ids, filter_config,
                   target_sheet, messages, email_message, email_data,
                   successful_emails, filtered_emails, runs, loaded, prev, same_list, retry, delivered, rejected>>

\* email_message = get_email_details(msg_id): the message, or None on any
\* exception
Fetch ==
    /\ InLoop
    /\ ~already_processed(msg_id, processed_ids)
    /\ \E ok \in BOOLEAN :
         /\ email_message' = IF ok THEN Mailbox(msg_id) ELSE NoMessage
         /\ IF falsy(email_message')
            THEN next_message /\ logged("fetch", "fail")
            ELSE pc' = "fetched" /\ logged("fetch", "ok") /\ UNCHANGED i
    /\ UNCHANGED <<stateFile, configFile, sheets, exit_kind, processed_ids, filter_config,
                   target_sheet, messages, email_data,
                   successful_emails, filtered_emails, runs, loaded, prev, same_list, retry, delivered, rejected>>

\* email_data = EmailParser.parse_email(email_message); an exception that
\* leaves parse_email is caught nowhere and ends the process
Parse ==
    /\ pc = "fetched"
    /\ email_data' = parse_email(email_message)
    /\ CASE email_data'.status = "raise" ->
              exit("exception") /\ logged("parse", "raise") /\ UNCHANGED i
         [] email_data'.status = "none" ->
              next_message /\ logged("parse", "none") /\ UNCHANGED exit_kind
         [] OTHER ->
              pc' = "parsed" /\ logged("parse", "ok") /\ UNCHANGED <<i, exit_kind>>
    /\ UNCHANGED <<stateFile, configFile, sheets, processed_ids, filter_config,
                   target_sheet, messages, email_message,
                   successful_emails, filtered_emails, runs, loaded, prev, same_list, retry, delivered, rejected>>

\* should_process_email: a rejected message is counted and marked processed
Filter ==
    /\ pc = "parsed"
    /\ IF ~should_process_email(filter_config, email_data)
       THEN /\ filtered_emails' = filtered_emails + 1
            /\ processed_ids' = ledger_after_filter(processed_ids, msg_id)
            /\ next_message
            /\ logged("filter", "drop")
       ELSE /\ pc' = "append"
            /\ logged("filter", "keep")
            /\ UNCHANGED <<filtered_emails, processed_ids, i>>
    /\ UNCHANGED <<stateFile, configFile, sheets, exit_kind, filter_config,
                   target_sheet, messages, email_message, email_data,
                   successful_emails, runs, loaded, prev, same_list, retry, delivered, rejected>>

\* the row process_emails builds
row_values(filter_cfg, data) ==
    <<data.date, data.from, data.subject, data.body, extract_filter_matches(filter_cfg, data)>>

\* append_data(spreadsheet_id, target_sheet, values): on success the id is
\* marked processed and counted
AppendRow ==
    /\ pc = "append"
    /\ \E success \in BOOLEAN :
         /\ processed_ids' = ledger_after_append(processed_ids, msg_id, success)
         /\ IF success
            THEN /\ sheets' = append_data(target_sheet,
                                  [src |-> msg_id, cells |-> row_values(filter_config, email_data)])
                 /\ successful_emails' = successful_emails + 1
                 /\ logged("append", "ok")
            ELSE /\ logged("append", "fail")
                 /\ UNCHANGED <<sheets, successful_emails>>
    /\ next_message
    /\ UNCHANGED <<stateFile, configFile, exit_kind, filter_config,
                   target_sheet, messages, email_message, email_data,
                   filtered_emails, runs, loaded, prev, same_list, retry, delivered, rejected>>

\* after the loop: save_state(), and process_emails returns
SaveState ==
    /\ pc = "loop"
    /\ i > Len(messages)
    /\ stateFile' = saved_state(processed_ids)
    /\ exit("completed")
    /\ delivered' = delivered \cup appended_now
    /\ UNCHANGED <<configFile, sheets, processed_ids, filter_config,
                   target_sheet, messages, i, email_message, email_data,
                   successful_emails, filtered_emails, runs, loaded, log, prev, same_list, retry, rejected>>

\* the process is terminated from outside, between two messages or before
\* save_state
Kill ==
    /\ pc = "loop"
    /\ exit("killed")
    /\ UNCHANGED <<stateFile, configFile, sheets, processed_ids, filter_config,
                   target_sheet, messages, i, email_message, email_data,
                   successful_emails, filtered_emails, hist_vars>>

Next ==
    \/ manage_filters
    \/ Start
    \/ Setup
    \/ GetUnread
    \/ Skip
    \/ Fetch
    \/ Parse
    \/ Filter
    \/ AppendRow
    \/ SaveState
    \/ Kill

Spec == Init /\ [][Next]_vars

\* ------------------------------------------- the files a process may find
\* state.json as a process may find it: absent, unreadable, not JSON, JSON
\* that is no object, an object without the key, the key with null, with
\* a string, with an object keyed by id, and what save_state writes
StateFiles ==
    {[kind |-> "missing"], [kind |-> "unreadable"], [kind |-> "corrupt"],
     json_file(json_list({"m1"})),
     json_file([json |-> "null"]),
     json_file(<<>>),
     json_file([processed_ids |-> [json |-> "null"]]),
     json_file([processed_ids |-> [json |-> "str", chars |-> <<"m", "1">>]]),
     json_file([processed_ids |-> [m1 |-> TRUE]]),
     json_file([processed_ids |-> json_list({})]),
     json_file([processed_ids |-> json_list({"m1"})])}

\* config.json as a process may find it: absent, unreadable, not JSON, JSON
\* that is no object, `filters` null, a list or a string, and files as the
\* program writes them
ConfigFiles ==
    {[kind |-> "missing"], [kind |-> "unreadable"], [kind |-> "corrupt"],
     json_file(json_list({"sid"})),
     json_file([json |-> "num"]),
     json_file([spreadsheet_id |-> "sid", filters |-> [json |-> "null"]]),
     json_file([spreadsheet_id |-> "sid", filters |-> json_list({})]),
     json_file([spreadsheet_id |-> "sid", filters |-> [json |-> "str", chars |-> <<"o", "n">>]]),
     json_file([spreadsheet_id |-> "sid"]),
     json_file([spreadsheet_id |-> "sid",
                filters |-> [enabled |-> TRUE, subject_keywords |-> << <<"i", "n", "v">> >>]])}

InitFiles ==
    /\ stateFile \in StateFiles
    /\ configFile \in ConfigFiles
    /\ sheets = <<[title |-> "Email Logs", headers |-> <<>>, rows |-> <<>>]>>
    /\ NotStarted

\* a process from its start to the fetch of a message
NextFiles ==
    \/ Start
    \/ Setup
    \/ GetUnread
    \/ Skip
    \/ Fetch

SpecFiles == InitFiles /\ [][NextFiles]_vars

\* ------------------------------------ one message in front of the filters
\* a key of the `filters` object: absent for <<>>, else set to opt[1]
with_key(d, key, opt) == IF opt = <<>> THEN d ELSE set_key(d, key, opt[1])

KeywordLists == {<<>>, << <<>> >>, << <<<<"i", "n", "v">>>> >>,
                 << <<<<"z", "z">>, <<"I", "N">>>> >>, << <<<<"N", "v">>, <<"I", "N">>>> >>}
DomainLists == {<<>>, << <<>> >>, << <<<<"X">>>> >>, << <<<<"z">>, <<"y">>>> >>}
MinDates == {<<>>, << <<3>> >>}
MaxDates == {<<>>, << <<4>> >>}

\* the `filters` objects of config.json
FilterSettings ==
    {with_key(with_key(with_key(with_key([enabled |-> e], "subject_keywords", k),
                                "sender_domains", d), "min_date", lo), "max_date", hi) :
        e \in BOOLEAN, k \in KeywordLists, d \in DomainLists, lo \in MinDates, hi \in MaxDates}

FromValues == {<<"a", "@", "X">>, <<"B", " ", "<", "b", "@", "y", ">">>,
               <<"n", "o", "b", "o", "d", "y">>, <<"a", "@", "b", "@", "x">>}
SubjectValues == {<<"I", "n", "v">>, <<"H", "i">>}
\* Date headers: RFC-822 dates on the days 2 to 5 (the one of day 3 at
\* midnight), and a date that no format of parse_date reads
DateValues ==
    {[fmt |-> "%a, %d %b %Y %H:%M:%S %z", day |-> 2, tod |-> 36000, tail |-> ""],
     [fmt |-> "%a, %d %b %Y %H:%M:%S %z", day |-> 3, tod |-> 0, tail |-> ""],
     [fmt |-> "%a, %d %b %Y %H:%M:%S %z", day |-> 4, tod |-> 36000, tail |-> " (UTC)"],
     [fmt |-> "%a, %d %b %Y %H:%M:%S %z", day |-> 5, tod |-> 1, tail |-> ""],
     [fmt |-> "other", day |-> 2, tod |-> 36000, tail |-> ""]}

\* the message m1 with these headers and one plain part
message_of(from, subject, date) ==
    [id |-> "m1",
     payload |->
       [mimeType |-> "text/plain",
        headers |-> <<[name |-> "From", value |-> from],
                      [name |-> "Subject", value |-> subject],
                      [name |-> "Date", value |-> date]>>,
        body |-> [data |-> data_of(text_of(<<"o", "k">>))]]]

\* process_emails at line 303: setup done, the list [m1] obtained, m1
\* fetched and parsed
InitFilter ==
    /\ stateFile = [kind |-> "missing"]
    /\ \E f \in FilterSettings :
         /\ configFile = json_file([spreadsheet_id |-> "sid", filters |-> f])
         /\ filter_config = load_from_config(configFile.data)
    /\ sheets = <<[title |-> "Email Logs", headers |-> sheet_headers,
                   rows |-> <<[src |-> "test", cells |-> test_data]>>]>>
    /\ pc = "parsed"
    /\ exit_kind = ""
    /\ processed_ids = {}
    /\ target_sheet = "Email Logs"
    /\ messages = <<"m1">>
    /\ i = 1
    /\ \E from \in FromValues, subject \in SubjectValues, date \in DateValues :
         /\ email_message = message_of(from, subject, date)
         /\ email_data = parse_email(email_message)
    /\ successful_emails = 0
    /\ filtered_emails = 0
    /\ runs = 1
    /\ loaded = {}
    /\ log = <<[pos |-> 1, id |-> "m1", step |-> "fetch", res |-> "ok"],
               [pos |-> 1, id |-> "m1", step |-> "parse", res |-> "ok"]>>
    /\ prev = NoPrev
    /\ same_list = FALSE
    /\ retry = {}
    /\ delivered = {}
    /\ rejected = {}

NextFilter == Filter

SpecFilter == InitFilter /\ [][NextFilter]_vars

TypeOK ==
    /\ pc \in {"idle", "setup", "list", "loop", "fetched", "parsed", "append", "exited"}
    /\ processed_ids \subseteq MsgIds
    /\ messages \in UnreadLists
    /\ runs \in 0..MaxRuns

\* ------------------------------------------------------------ properties
Ended == pc = "exited"
Completed == Ended /\ exit_kind = "completed"
\* the process ran the loop to its end after the one before it did, on the
\* same list
SecondOfTwo == Completed /\ same_list /\ prev.completed

no_repeats(q) == \A j, k \in 1..Len(q) : q[j] = q[k] => j = k

\* C1: of two processes that complete on the same unread list, the second
\* appends nothing: the sink has as many rows after it as after the first.
C1_SecondRunAppendsNothing == SecondOfTwo => row_count = prev.rows

\* C2: once a process that completed has appended the row of an id, no
\* step of any later process appends a row for that id.
C2_AtMostOnce == [][\A m \in delivered : rows_of(m)' = rows_of(m)]_vars

C2_Witness ==
    /\ runs = 2
    /\ \E k \in 1..Len(log) : log[k].id \in delivered /\ log[k].step = "skip"
    /\ Completed

\* C3: when a process is interrupted (terminated, or ended by an uncaught
\* exception), state.json holds the ids it loaded plus the ids appended or
\* filtered out so far.
C3_InterruptedLedgerIsCurrent ==
    (Ended /\ exit_kind \in {"killed", "exception"})
        => load_state(stateFile) = loaded \cup appended_now \cup filtered_now

\* C4: every id the process added to its ledger was filtered out or
\* appended with success by this process; an id whose last step was a
\* failure is neither in the ledger nor in state.json; and the first step
\* the next process takes on such an id is not a skip.
C4_LedgerOnlyAfterOutcome ==
    /\ processed_ids \ loaded \subseteq appended_now \cup filtered_now
    /\ failed_last \cap (processed_ids \cup load_state(stateFile)) = {}
    /\ \A k \in 1..Len(log) :
         (log[k].id \in retry /\ \A j \in 1..(k - 1) : log[j].id # log[k].id)
             => log[k].step # "skip"

C4_Witness ==
    /\ runs = 2
    /\ \E k \in 1..Len(log) : log[k].id \in retry /\ log[k].step = "append" /\ log[k].res = "ok"
    /\ failed_last # {}

\* C5: when the fetch, the decoding or the append of a message fails, the
\* messages after it are still processed and state.json is written at the
\* end.
C5_FailureDoesNotAbort ==
    (Ended /\ exit_kind \in {"completed", "exception"})
        => \A k \in 1..Len(log) :
             is_failure(log[k]) =>
               /\ \A p \in (log[k].pos + 1)..Len(messages) :
                     \E j \in 1..Len(log) : log[j].pos = p
               /\ stateFile = saved_state(processed_ids)

\* C6: an id filtered out is in the ledger and gets no row in the process
\* that rejects it, and no later process fetches, decodes, filters or
\* appends it.
C6_RejectedIsTerminal ==
    /\ filtered_now \subseteq processed_ids
    /\ filtered_now \cap appended_now = {}
    /\ \A k \in 1..Len(log) : log[k].id \in rejected => log[k].step = "skip"

\* C7: at the head of the loop with an id that is in the ledger, the step
\* the process takes is the skip: it moves to the next message, and it
\* fetches nothing, decodes nothing, evaluates no filter, appends no row
\* and leaves the ledger and state.json as they are.
C7_SkipIsImmediate ==
    [][(InLoop /\ msg_id \in processed_ids /\ pc' # "exited")
         => /\ log' = Append(log, [pos |-> i, id |-> msg_id, step |-> "skip", res |-> "ok"])
            /\ pc' = "loop" /\ i' = i + 1
            /\ email_message' = email_message
            /\ email_data' = email_data
            /\ sheets' = sheets
            /\ processed_ids' = processed_ids
            /\ stateFile' = stateFile
            /\ successful_emails' = successful_emails
            /\ filtered_emails' = filtered_emails]_vars

C7_Witness ==
    /\ runs = 2
    /\ \E k \in 1..Len(log) : log[k].step = "skip" /\ log[k].id \in loaded
    /\ \E k \in 1..Len(log) : log[k].step = "append" /\ log[k].res = "ok"

C9_OneOutcomePerMessage ==
    (Ended /\ exit_kind \in {"completed", "exception"})
        => successful_emails + filtered_emails + skipped_count + failed_count = Len(messages)

\* C10: the steps of the process follow the list: a step on the next
\* position is taken only after the position before it has its outcome,
\* no position is taken up again, and the rows the process appended are
\* the last rows of the sheet, in the order of their positions in the list.
appended_entries == SelectSeq(log, LAMBDA e : e.step = "append" /\ e.res = "ok")
target_rows == IF sheet_index(target_sheet) = 0 THEN <<>> ELSE sheets[sheet_index(target_sheet)].rows

C10_InListOrder ==
    /\ \A k \in 1..Len(log) : messages[log[k].pos] = log[k].id
    /\ \A k \in 1..(Len(log) - 1) :
         \/ log[k + 1].pos = log[k].pos /\ ~is_outcome(log[k])
         \/ log[k + 1].pos = log[k].pos + 1 /\ is_outcome(log[k])
    /\ Len(target_rows) >= Len(appended_entries)
    /\ \A k \in 1..Len(appended_entries) :
         /\ target_rows[Len(target_rows) - Len(appended_entries) + k].src = appended_entries[k].id
         /\ \A j \in 1..(k - 1) : appended_entries[j].pos < appended_entries[k].pos

C10_Witness ==
    /\ Len(appended_entries) = 2
    /\ appended_entries[1].id # appended_entries[2].id
    /\ Completed

\* C11: while a process runs its set of processed ids never loses an id,
\* and no step makes the ledger that state.json holds lose an id.
C11_LedgerGrows ==
    [][/\ (Running /\ runs' = runs) => processed_ids \subseteq processed_ids'
       /\ load_state(stateFile) \subseteq load_state(stateFile')]_vars

\* a process that loaded a ledger with an id in it has saved a larger one
C11_Witness ==
    /\ Completed
    /\ loaded # {}
    /\ loaded \subseteq load_state(stateFile)
    /\ load_state(stateFile) # loaded

\* state.json holds an object whose processed_ids is a list
state_well_formed(f) ==
    /\ f.kind = "json"
    /\ is_dict(f.data)
    /\ has(f.data, "processed_ids")
    /\ ~is_dict(f.data.processed_ids)
    /\ f.data.processed_ids.json = "list"

\* C12: a process that found state.json missing, unreadable, not JSON or of
\* another shape than an object with a list of ids has loaded the empty
\* ledger.
C12_MalformedStateLoadsEmpty ==
    (runs > 0 /\ ~state_well_formed(stateFile)) => (loaded = {} /\ processed_ids = {})

\* config.json holds an object whose `filters`, when present, is an object
config_well_formed(f) ==
    /\ f.kind = "json"
    /\ is_dict(f.data)
    /\ is_dict(get(f.data, "filters", <<>>))

\* C13: a process that found config.json unreadable, not JSON, or with a
\* content or a `filters` value of the wrong shape has not ended by an
\* exception and has its filters at their defaults.
C13_MalformedConfigFallsBack ==
    (runs > 0 /\ ~config_well_formed(configFile))
        => (exit_kind # "exception" /\ filter_config = FilterConfig_init)

\* C14: once setup is over and the process goes on, the target sheet is
\* the sheet named SHEET_NAME, which exists and has the header row.
C14_NamedTableEnsured ==
    (Running /\ pc # "setup")
        => /\ target_sheet = SHEET_NAME
           /\ sheet_index(SHEET_NAME) # 0
           /\ sheets[sheet_index(SHEET_NAME)].headers = sheet_headers

\* C15: every row in the spreadsheet has five cells.
C15_RowsHaveFiveCells ==
    \A k \in 1..Len(all_rows) : Len(all_rows[k].cells) = 5

\* ---------------------------------------------- properties of the filters
\* the last step was the filter, and it kept the message
filter_acted == log # <<>> /\ log[Len(log)].step = "filter"
filter_passed == log[Len(log)].res = "keep"
filtering == filter_acted /\ filter_config.enable_filtering

\* a and b are equal up to case
same_ci(a, b) == Len(a) = Len(b) /\ \A k \in 1..Len(a) : lowerChar(a[k]) = lowerChar(b[k])
\* k is a substring of s up to case
occurs_in(k, s) ==
    \E off \in 0..(Len(s) - Len(k)) : \A j \in 1..Len(k) : lowerChar(k[j]) = lowerChar(s[off + j])
\* what follows the last '@' of from, empty without '@'
domain_of(from) ==
    IF \E p \in 1..Len(from) : from[p] = "@"
    THEN LET p == CHOOSE q \in 1..Len(from) :
                      from[q] = "@" /\ \A n \in (q + 1)..Len(from) : from[n] # "@"
         IN  SubSeq(from, p + 1, Len(from))
    ELSE <<>>
subject_axis ==
    \/ filter_config.subject_keywords = <<>>
    \/ \E k \in 1..Len(filter_config.subject_keywords) :
           occurs_in(filter_config.subject_keywords[k], email_data.subject)
domain_axis ==
    \/ filter_config.sender_domains = <<>>
    \/ \E k \in 1..Len(filter_config.sender_domains) :
           same_ci(domain_of(email_data.from), filter_config.sender_domains[k])
date_bounded == filter_config.min_date # <<>> \/ filter_config.max_date # <<>>
date_canonical == email_data.date.fmt = canonical_format /\ email_data.date.tail = ""
date_in_range ==
    /\ filter_config.min_date # <<>> => email_data.date.day >= filter_config.min_date[1]
    /\ filter_config.max_date # <<>> => email_data.date.day <= filter_config.max_date[1]

\* C16: with filtering disabled the filter keeps the message, whatever the
\* keywords, the domains and the date bounds.
C16_DisabledKeepsAll ==
    (filter_acted /\ ~filter_config.enable_filtering) => filter_passed

\* kept although a keyword list that does not match is configured
C16_Witness ==
    /\ filter_acted /\ ~filter_config.enable_filtering /\ filter_passed
    /\ ~subject_axis /\ ~domain_axis /\ date_bounded

\* C17: with filtering enabled and a date in canonical form, a message dated
\* outside [min_date, max_date] (as days) is dropped, and one dated at any
\* time of a day within them is not dropped for its date.
C17_DateAxisInclusive ==
    (filtering /\ date_canonical)
        => /\ ~date_in_range => ~filter_passed
           /\ (date_in_range /\ subject_axis /\ domain_axis) => filter_passed

\* C18: with filtering enabled and domains configured, a message that the
\* subject does not drop is kept exactly when what follows the last '@' of
\* its sender equals a configured domain up to case.
C18_DomainAxis ==
    (filtering /\ filter_config.sender_domains # <<>> /\ subject_axis)
        => (filter_passed <=> domain_axis)

\* C19: with filtering enabled, a message that neither the domains nor the
\* dates drop is kept exactly when no keyword is configured or a keyword
\* occurs in its subject up to case.
C19_SubjectAxis ==
    (filtering /\ ~domain_rejects(filter_config, email_data)
               /\ ~date_rejects(filter_config, email_data))
        => (filter_passed <=> subject_axis)

\* kept for its second keyword, which differs from the subject in case
C19_Witness ==
    /\ filtering /\ filter_passed
    /\ Len(filter_config.subject_keywords) = 2
    /\ ~contains(filter_config.subject_keywords[2], email_data.subject)
    /\ occurs_in(filter_config.subject_keywords[2], email_data.subject)

\* C20: with filtering enabled, a date bound set and a date that is not in
\* canonical form, the message is kept exactly when neither the subject nor
\* the domain block drops it.
C20_DateFailsOpen ==
    (filtering /\ date_bounded /\ ~date_canonical)
        => (filter_passed <=> (~subject_rejects(filter_config, email_data)
                                 /\ ~domain_rejects(filter_config, email_data)))

\* a message with an unreadable date kept under both date bounds
C20_Witness ==
    /\ filtering /\ filter_passed
    /\ filter_config.min_date # <<>> /\ filter_config.max_date # <<>>
    /\ email_data.date.fmt = "other"

\* ------------------------------------------------ the row of one message
\* process_emails from line 303 to the append of the row
NextRow ==
    \/ Filter
    \/ AppendRow

SpecRow == InitFilter /\ [][NextRow]_vars

\* the last step appended the row of the message
row_appended == log # <<>> /\ log[Len(log)].step = "append" /\ log[Len(log)].res = "ok"
\* the fifth cell of the last row of the target sheet
match_cell == target_rows[Len(target_rows)].cells[5]
\* the configured keywords that occur in the subject, the configured
\* domains that equal the sender's domain, by their places in the lists
keyword_hits ==
    {k \in 1..Len(filter_config.subject_keywords) :
        occurs_in(filter_config.subject_keywords[k], email_data.subject)}
domain_hits ==
    {k \in 1..Len(filter_config.sender_domains) :
        /\ domain_of(email_data.from) # <<>>
        /\ same_ci(domain_of(email_data.from), filter_config.sender_domains[k])}
least(S) == CHOOSE k \in S : \A j \in S : k <= j
subject_reason ==
    IF keyword_hits = {} THEN <<>>
    ELSE S_subject \o filter_config.subject_keywords[least(keyword_hits)]
\* the match cell for a domain reason d: the reasons that are there,
\* joined by ", ", or "No filter match"
reasons(d) ==
    IF subject_reason # <<>> /\ d # <<>> THEN subject_reason \o <<",", " ">> \o d
    ELSE IF subject_reason # <<>> THEN subject_reason
    ELSE IF d # <<>> THEN d
    ELSE S_no_match

\* C21 as stated: the match cell of an appended row names the first
\* configured keyword that occurs in the subject and the first configured
\* domain that equals the sender's domain, each as it is configured, and is
\* "No filter match" when there is neither; dates play no part.
C21_ReportsConfiguredDomain ==
    row_appended
        => match_cell = reasons(IF domain_hits = {} THEN <<>>
                                ELSE S_domain \o filter_config.sender_domains[least(domain_hits)])

\* C21: the match cell of an appended row names the first configured
\* keyword that occurs in the subject, as configured, and the sender's
\* domain as the sender wrote it when it equals a configured domain up to
\* case; it is "No filter match" when there is neither; dates play no part.
C21_MatchReasons ==
    row_appended
        => match_cell = reasons(IF domain_hits = {} THEN <<>>
                                ELSE S_domain \o domain_of(email_data.from))

\* a row whose cell names the first of two matching keywords and a domain
\* written in another case than the configured one, under date bounds
C21_Witness ==
    /\ row_appended
    /\ Cardinality(keyword_hits) = 2
    /\ domain_hits # {}
    /\ domain_of(email_data.from) # filter_config.sender_domains[least(domain_hits)]
    /\ date_bounded

\* ------------------------------------------- one message in front of parse
\* the longest HTML document, in events
MaxEvents == 4

\* a string of n characters c
rep(c, n) == [k \in 1..n |-> c]

\* parts of a payload
plain(cs) == [mimeType |-> "text/plain", body |-> [data |-> data_of(text_of(cs))]]
html(events) == [mimeType |-> "text/html", body |-> [data |-> data_of(events)]]
mixed(parts) == [mimeType |-> "multipart/mixed", parts |-> parts]

\* a message with this From value and this payload content (its parts, or
\* its mime type and body)
mail(from, content) ==
    [id |-> "m1",
     payload |-> [x \in DOMAIN content \cup {"headers"} |->
                    IF x = "headers"
                    THEN <<[name |-> "From", value |-> from],
                           [name |-> "Subject", value |-> <<"I", "n", "v">>]>>
                    ELSE content[x]]]

\* From header values: a name and an address in brackets, bare addresses,
\* values without '@', empty or unclosed brackets, several brackets, an
\* address followed by spaces or by another token
ParseFroms ==
    {<<"A", "n", "n", " ", "<", "a", "@", "X", ">">>,
     <<"a", "@", "X">>,
     <<"n", "o", "b", "o", "d", "y">>,
     <<"J", "o", " ", "D", "o", "e">>,
     <<"J", "o", " ", "a", "@", "b", " ", " ">>,
     <<"a", "@", "b", " ", "J", "o">>,
     <<"<", ">", " ", "<", "a", "@", "b", ">">>,
     <<"<", "a", ">", " ", "<", "b", "@", "c", ">">>,
     <<"a", " ", "<", " ", "b", " ", "<", "c", "@", "d", ">">>,
     <<"J", "o", " ", "<", "a", "@", "b">>,
     <<"a", ">", "b", "@", "c", "<", "d">>,
     <<"<", "J", "o", ">">>,
     <<"<", ">">>,
     <<>>}

Doc1 ==
    <<[t |-> "start", tag |-> "p"], [t |-> "data", text |-> <<"H", "e", "l", "l", "o", " ">>],
      [t |-> "start", tag |-> "b"], [t |-> "data", text |-> <<"w", "o", "r", "l", "d">>],
      [t |-> "end", tag |-> "b"], [t |-> "end", tag |-> "p"]>>
Doc2 ==
    <<[t |-> "start", tag |-> "p"], [t |-> "data", text |-> <<"H", "e", "l", "l", "o", " ">>],
      [t |-> "start", tag |-> "b"], [t |-> "data", text |-> <<"t", "h", "e", "r", "e">>],
      [t |-> "end", tag |-> "b"], [t |-> "end", tag |-> "p"]>>

\* the leaves of the part trees: plain texts of 2, 2 and 3 characters, one
\* with its mime type in capitals, two HTML documents of one length, an
\* attachment, and a text part whose body carries no data
TreeLeaves ==
    {plain(<<"a", "b">>), plain(<<"c", "d">>), plain(<<"e", "f", "g">>),
     [mimeType |-> "TEXT/PLAIN", body |-> [data |-> data_of(text_of(<<"h", "i", "j">>))]],
     html(Doc1), html(Doc2),
     [mimeType |-> "image/png", body |-> [data |-> data_of(text_of(rep("z", 5)))]],
     [mimeType |-> "text/plain", body |-> [attachmentId |-> "a1"]]}

\* the lists of one or two members of S
Lists12(S) == {<<x>> : x \in S} \cup {<<x, y>> : x \in S, y \in S}

\* the parts below the payload: leaves, multipart containers of leaves, a
\* container without 'parts', and a container of another mime type
TreeParts ==
    TreeLeaves
    \cup {mixed(q) : q \in Lists12(TreeLeaves)}
    \cup {[mimeType |-> "multipart/related"],
          [mimeType |-> "message/rfc822", parts |-> <<plain(rep("q", 4))>>]}

\* payloads: part lists of up to two parts, containers nested three deep,
\* and single-part payloads
TreePayloads ==
    {[mimeType |-> "multipart/alternative", parts |-> q] : q \in Lists12(TreeParts) \cup {<<>>}}
    \cup {[mimeType |-> "multipart/mixed",
           parts |-> <<mixed(<<mixed(<<mixed(q)>>), x>>)>>] :
              q \in Lists12({plain(<<"a", "b">>), html(Doc1)}),
              x \in {plain(<<"c", "d">>), html(Doc2), plain(<<"e", "f", "g">>)}}
    \cup {[mimeType |-> "text/plain", body |-> [data |-> data_of(text_of(<<"o", "k">>))]],
          [mimeType |-> "text/html", body |-> [data |-> data_of(Doc1)]],
          [mimeType |-> "image/png", body |-> [data |-> data_of(text_of(<<"o", "k">>))]],
          [mimeType |-> "text/plain", body |-> [attachmentId |-> "a1"]],
          [mimeType |-> "text/plain"],
          [mimeType |-> "multipart/mixed"]}

\* payloads around the 50-character limit: a plain part of 0, 2, 49, 50 or
\* 51 characters, alone or beside an HTML part (a document, or no data)
LimitPayloads ==
    {[mimeType |-> "multipart/alternative", parts |-> <<p>> \o h] :
        p \in {plain(rep("a", n)) : n \in {2, 49, 50, 51}}
               \cup {[mimeType |-> "text/plain", body |-> [data |-> data_of(<<>>)]]},
        h \in {<<>>, <<html(Doc1)>>, <<html(<<>>)>>}}

\* parts that are not as the API documents them: a text part without
\* 'body', and text parts whose data is not base64
MalformedParts ==
    {[mimeType |-> "text/plain"],
     [mimeType |-> "text/html"],
     [mimeType |-> "text/plain", body |-> [data |-> [b64 |-> FALSE]]],
     [mimeType |-> "text/html", body |-> [data |-> [b64 |-> FALSE]]]}

MalformedPayloads ==
    {[mimeType |-> "multipart/mixed", parts |-> q] :
        q \in {<<m>> : m \in MalformedParts}
               \cup {<<plain(<<"a", "b">>), m>> : m \in MalformedParts}
               \cup {<<mixed(<<m>>), html(Doc1)>> : m \in MalformedParts}}
    \cup {[mimeType |-> "text/plain", body |-> [data |-> [b64 |-> FALSE]]]}

\* HTML documents: the sequences of up to MaxEvents different events out of
\* start and end tags of head, title and script, a meta tag, and two texts
HtmlEvents ==
    {[t |-> k, tag |-> g] : k \in {"start", "end"}, g \in {"head", "title", "script"}}
    \cup {[t |-> "start", tag |-> "meta"],
          [t |-> "data", text |-> rep("v", 10)],
          [t |-> "data", text |-> <<" ", "h", "i", "d">>]}

RECURSIVE DistinctSeqs(_, _)
DistinctSeqs(S, n) ==
    IF n = 0 THEN {<<>>}
    ELSE LET shorter == DistinctSeqs(S, n - 1)
         IN  shorter \cup UNION {{Append(q, x) : x \in S \ seq_range(q)} :
                                    q \in {r \in shorter : Len(r) = n - 1}}

HtmlDocs == DistinctSeqs(HtmlEvents, MaxEvents)

\* the messages users().messages().get may return
ParseInputs ==
    {mail(f, [mimeType |-> "text/plain", body |-> [data |-> data_of(text_of(<<"o", "k">>))]]) :
        f \in ParseFroms}
    \cup {mail(<<"a", "@", "X">>, c) : c \in TreePayloads \cup LimitPayloads \cup MalformedPayloads}
    \cup {mail(<<"a", "@", "X">>, [mimeType |-> "text/html", body |-> [data |-> data_of(d)]]) :
            d \in HtmlDocs}
    \cup {[id |-> "m1"],
          [payload |-> mail(<<"a", "@", "X">>, plain(<<"o", "k">>)).payload],
          [id |-> "m1", payload |-> plain(<<"o", "k">>)]}

\* process_emails at line 296: setup done, the list [m1] obtained, m1
\* fetched
InitParse ==
    /\ stateFile = [kind |-> "missing"]
    /\ configFile = json_file([spreadsheet_id |-> "sid", filters |-> [enabled |-> FALSE]])
    /\ filter_config = load_from_config(configFile.data)
    /\ sheets = <<[title |-> "Email Logs", headers |-> sheet_headers,
                   rows |-> <<[src |-> "test", cells |-> test_data]>>]>>
    /\ pc = "fetched"
    /\ exit_kind = ""
    /\ processed_ids = {}
    /\ target_sheet = "Email Logs"
    /\ messages = <<"m1">>
    /\ i = 1
    /\ email_message \in ParseInputs
    /\ email_data = NoRecord
    /\ successful_emails = 0
    /\ filtered_emails = 0
    /\ runs = 1
    /\ loaded = {}
    /\ log = <<[pos |-> 1, id |-> "m1", step |-> "fetch", res |-> "ok"]>>
    /\ prev = NoPrev
    /\ same_list = FALSE
    /\ retry = {}
    /\ delivered = {}
    /\ rejected = {}

NextParse == Parse

SpecParse == InitParse /\ [][NextParse]_vars

\* ------------------------------------------------ properties of the parser
\* the last step was parse_email
parse_acted == log # <<>> /\ log[Len(log)].step = "parse"
parse_returned == parse_acted /\ email_data.status = "ok"

\* C22: parse_email returns a record for every message that has an id and
\* a payload, whatever its parts are: a part without a body, or with data
\* that does not decode, does not make it fail.
C22_MalformedPartsDegrade ==
    (parse_acted /\ has(email_message, "id") /\ has(email_message, "payload"))
        => email_data.status = "ok"

\* the decoded texts of the leaves of one mime type below a part, in
\* depth-first order; only multipart containers have parts that count
RECURSIVE leaf_texts(_, _)
RECURSIVE leaves_of(_, _)
leaf_texts(part, mime) ==
    IF get_mime(part) = mime
    THEN IF has(part, "body") /\ has(part.body, "data") THEN <<part.body.data.text>> ELSE <<>>
    ELSE IF is_multipart(get_mime(part)) /\ has(part, "parts") THEN leaves_of(part.parts, mime)
    ELSE <<>>
leaves_of(parts, mime) ==
    IF parts = <<>> THEN <<>> ELSE leaf_texts(Head(parts), mime) \o leaves_of(Tail(parts), mime)
\* the leaves of a payload: those of its parts, or the payload itself
payload_leaves(payload, mime) ==
    IF has(payload, "parts") THEN leaves_of(payload.parts, mime)
    ELSE IF is_multipart(get_mime(payload)) THEN <<>> ELSE leaf_texts(payload, mime)
\* the longest of the texts, the first of the longest; "" when there is none
longest_first(texts) ==
    IF texts = <<>> THEN <<>>
    ELSE texts[CHOOSE k \in 1..Len(texts) :
                 \A j \in 1..Len(texts) :
                    /\ Len(chars(texts[j])) <= Len(chars(texts[k]))
                    /\ j < k => Len(chars(texts[j])) < Len(chars(texts[k]))]
plain_leaves == payload_leaves(email_message.payload, "text/plain")
html_leaves == payload_leaves(email_message.payload, "text/html")

\* C23: when get_email_bodies returns for the payload of the parsed
\* message, its plain text is the longest text/plain leaf of the part tree,
\* the first in depth-first order among the longest, its HTML text is the
\* same among the text/html leaves, leaves below containers at any depth
\* count, parts of other types do not, and the body of the record is made
\* of these two texts.
C23_LongestLeafFirstOnTies ==
    (parse_acted /\ has(email_message, "payload"))
        => LET bodies == get_email_bodies(email_message.payload)
           IN  /\ ~bodies.raised
                    => /\ chars(bodies.plain_text) = chars(longest_first(plain_leaves))
                       /\ chars(bodies.html_text) = chars(longest_first(html_leaves))
               /\ parse_returned
                    => email_data.body =
                           truncate(strip(collapse_ws(select_text(longest_first(plain_leaves),
                                                                  longest_first(html_leaves)))),
                                    BodyLimit)

\* a parsed message with two different plain leaves of one length and two
\* different HTML leaves of one length, all below containers
C23_Witness ==
    /\ parse_returned
    /\ Len(plain_leaves) = 2 /\ plain_leaves[1] # plain_leaves[2]
    /\ Len(chars(plain_leaves[1])) = Len(chars(plain_leaves[2]))
    /\ Len(html_leaves) = 2 /\ html_leaves[1] # html_leaves[2]
    /\ Len(chars(html_leaves[1])) = Len(chars(html_leaves[2]))
    /\ \A k \in 1..Len(email_message.payload.parts) :
           is_multipart(get_mime(email_message.payload.parts[k]))

\* the body parse_email makes of a text: whitespace collapsed, cut at 5000
body_of(text) == truncate(strip(collapse_ws(text)), BodyLimit)
plain_found == chars(get_email_bodies(email_message.payload).plain_text)
html_found == get_email_bodies(email_message.payload).html_text
html_present == chars(html_found) # <<>>

\* C24: the body of the record is made of the converted HTML text when the
\* plain text is empty, or when it has fewer than 50 characters and there
\* is an HTML text; in every other case it is made of the plain text.
C24_TextSelection ==
    parse_returned
        => email_data.body =
               IF plain_found = <<>> \/ (Len(plain_found) < 50 /\ html_present)
               THEN body_of(html_to_text(html_found))
               ELSE body_of(plain_found)

\* a plain text of exactly 50 characters kept although an HTML text with
\* another content is there
C24_Witness ==
    /\ parse_returned
    /\ Len(plain_found) = 50
    /\ html_present
    /\ email_data.body = body_of(plain_found)
    /\ email_data.body # body_of(html_to_text(html_found))

\* the event k of the document lies in an element that is ignored: after
\* the start tag of a script, style, head, title or meta element that no
\* end tag of that name has closed before k
in_ignored(doc, k) ==
    \E j \in 1..(k - 1) :
        /\ doc[j].t = "start"
        /\ doc[j].tag \in {"script", "style", "head", "title", "meta"}
        /\ \A m \in (j + 1)..(k - 1) : ~(doc[m].t = "end" /\ doc[m].tag = doc[j].tag)
\* the texts of the document, by their places
texts_of(doc) == {k \in 1..Len(doc) : doc[k].t = "data" /\ strip(doc[k].text) # <<>>}

\* C25: the body made of an HTML document holds no text of the document
\* that lies in a script, style, head, title or meta element, and holds
\* every text that lies in none.
C25_IgnoredContentDiscarded ==
    (parse_returned /\ plain_found = <<>>)
        => \A k \in texts_of(html_found) :
              in_ignored(html_found, k) <=> ~contains(strip(html_found[k].text), email_data.body)

\* the value of the From header of the message
from_value == email_message.payload.headers[1].value
\* the bracket pairs of a value: a '<', at least one character, and the
\* first '>' after it
bracket_pairs(v) ==
    {pr \in (1..Len(v)) \X (1..Len(v)) :
        /\ v[pr[1]] = "<" /\ v[pr[2]] = ">" /\ pr[2] > pr[1] + 1
        /\ \A r \in (pr[1] + 1)..(pr[2] - 1) : v[r] # ">"}
\* the tokens of a value: the runs of characters without whitespace, as
\* (first, last) places
tokens(v) ==
    {pr \in (1..Len(v)) \X (1..Len(v)) :
        /\ pr[1] <= pr[2]
        /\ \A r \in pr[1]..pr[2] : ~isSpace(v[r])
        /\ pr[1] = 1 \/ isSpace(v[pr[1] - 1])
        /\ pr[2] = Len(v) \/ isSpace(v[pr[2] + 1])}
expected_from(v) ==
    IF bracket_pairs(v) # {}
    THEN LET pr == CHOOSE x \in bracket_pairs(v) : \A y \in bracket_pairs(v) : x[1] <= y[1]
         IN  SubSeq(v, pr[1] + 1, pr[2] - 1)
    ELSE IF \E k \in 1..Len(v) : v[k] = "@"
         THEN LET pr == CHOOSE x \in tokens(v) : \A y \in tokens(v) : y[2] <= x[2]
              IN  SubSeq(v, pr[1], pr[2])
         ELSE v

\* C26: the `from` of the record is what stands in the first pair of
\* angle brackets of the From value; without such a pair it is the last
\* whitespace-delimited token of a value that has an '@', and the value
\* itself otherwise.
C26_SenderNormalised ==
    parse_returned => email_data.from = expected_from(from_value)

\* a value with an empty pair of brackets before the address in brackets
C26_Witness ==
    /\ parse_returned
    /\ Cardinality(bracket_pairs(from_value)) = 1
    /\ from_value[1] = "<" /\ from_value[2] = ">"
    /\ email_data.from = <<"a", "@", "b">>

\* ------------------------------------------- an id that is listed twice
\* the step j of the process was taken on an earlier place of the list
\* that holds the id of step k
earlier_occurrence(j, k) == j < k /\ log[j].id = log[k].id /\ log[j].pos < log[k].pos
resolved(e) == (e.step = "append" /\ e.res = "ok") \/ (e.step = "filter" /\ e.res = "drop")

\* C27: within one process at most one row is appended for an id, however
\* often the list holds it: once an occurrence is appended or filtered out
\* every later occurrence is skipped, and a later occurrence is fetched
\* only if every earlier occurrence ended in a failure.
C27_DuplicateIdsAppendOnce ==
    /\ \A id \in MsgIds :
          Cardinality({k \in 1..Len(log) :
                         log[k].id = id /\ log[k].step = "append" /\ log[k].res = "ok"}) <= 1
    /\ \A k \in 1..Len(log) : \A j \in 1..(k - 1) :
          earlier_occurrence(j, k)
              => /\ resolved(log[j]) => log[k].step = "skip"
                 /\ (log[k].step # "skip" /\ is_outcome(log[j])) => is_failure(log[j])

\* the list holds an id twice: its first occurrence failed at the append,
\* its second was appended
C27_Witness ==
    \E k \in 1..Len(log) : \E j \in 1..(k - 1) :
        /\ earlier_occurrence(j, k)
        /\ log[j].step = "append" /\ log[j].res = "fail"
        /\ log[k].step = "append" /\ log[k].res = "ok"

====
